---- MODULE Spec2Model ----
(***************************************************************************)
(* Model of BankingHistory (src/FinancialViewer.py): the reconstruction of *)
(* daily and monthly balance histories of a chequing and a saving account  *)
(* and of their combination from transaction rows.                         *)
(*                                                                         *)
(* Representation.                                                         *)
(*   - A datetime.datetime at midnight is its proleptic Gregorian ordinal  *)
(*     (date.toordinal()); timedelta(days=1) is +1.                        *)
(*   - A date string "mm/dd/yyyy" is the tuple <<mm, dd, yyyy>>.           *)
(*   - An amount string is a record: numeric tells whether float() accepts *)
(*     it, mills is its value in thousandths ("-10.005" is -10005).        *)
(*   - A float holding an amount is the integer number of cents.  Every    *)
(*     float of the pipeline is round(x, 2) of something, and the sums of  *)
(*     such values differ from the exact cent total by far less than half  *)
(*     a cent, so round(sum, 2) is the exact cent total.                   *)
(***************************************************************************)
EXTENDS Integers, Sequences, FiniteSets, TLC

\* Largest number of transaction rows in one account's csv.
MaxRows == 2

\* Largest number of chequing rows where one account is followed alone.
MaxLongRows == 3
\* The summaries that may already lie in the target folder: FinancialSummary.pdf
\* and its numbered successors up to (MaxSummaries - 1).
MaxSummaries == 4

(***************************************************************************)
(* Calendar arithmetic of datetime                                         *)
(***************************************************************************)
IsLeap(y) == (y % 4 = 0) /\ ((y % 100 # 0) \/ (y % 400 = 0))

DaysInMonth(m, y) ==
    IF m = 2 THEN (IF IsLeap(y) THEN 29 ELSE 28)
    ELSE IF m \in {4, 6, 9, 11} THEN 30 ELSE 31

\* datetime.datetime(year=y, month=m, day=d) as an ordinal.
DaysFromCivil(y, m, d) ==
    LET yy  == IF m <= 2 THEN y - 1 ELSE y
        era == yy \div 400
        yoe == yy - era * 400
        mp  == IF m > 2 THEN m - 3 ELSE m + 9
        doy == (153 * mp + 2) \div 5 + d - 1
        doe == yoe * 365 + yoe \div 4 - yoe \div 100 + doy
    IN  era * 146097 + doe - 305

\* The fields <<year, month, day>> of the datetime with ordinal n.
CivilFromDays(n) ==
    LET z   == n + 305
        era == z \div 146097
        doe == z - era * 146097
        yoe == (doe - doe \div 1460 + doe \div 36524 - doe \div 146096) \div 365
        doy == doe - (365 * yoe + yoe \div 4 - yoe \div 100)
        mp  == (5 * doy + 2) \div 153
        d   == doy - (153 * mp + 2) \div 5 + 1
        m   == IF mp < 10 THEN mp + 3 ELSE mp - 9
        y   == yoe + era * 400 + (IF m <= 2 THEN 1 ELSE 0)
    IN  <<y, m, d>>

YearOf(n)  == CivilFromDays(n)[1]
MonthOf(n) == CivilFromDays(n)[2]
DayOf(n)   == CivilFromDays(n)[3]

\* Whether strptime(date_string, "%m/%d/%Y") accepts the string.
ValidDateString(s) ==
    /\ s[3] \in 1..9999
    /\ s[1] \in 1..12
    /\ s[2] \in 1..DaysInMonth(s[1], s[3])

\* datetime.datetime.strptime(date_string, "%m/%d/%Y")
Strptime(s) == DaysFromCivil(s[3], s[1], s[2])

(***************************************************************************)
(* round(float(account_change), 2)                                         *)
(***************************************************************************)
RECURSIVE Pow2(_)
Pow2(k) == IF k = 0 THEN 1 ELSE 2 * Pow2(k - 1)

RECURSIVE Pow2Mod125(_)
Pow2Mod125(k) == IF k = 0 THEN 1 ELSE (2 * Pow2Mod125(k - 1)) % 125

\* The binary exponent e of a/1000: 2^e <= a/1000 < 2^(e+1), for a > 0.
RECURSIVE ExponentUp(_, _)
ExponentUp(a, e) == IF a >= 1000 * Pow2(e + 1) THEN ExponentUp(a, e + 1) ELSE e

RECURSIVE ExponentDown(_, _)
ExponentDown(a, e) == IF a * Pow2(0 - e) < 1000 THEN ExponentDown(a, e - 1) ELSE e

BinaryExponent(a) == IF a >= 1000 THEN ExponentUp(a, 0) ELSE ExponentDown(a, 0)

\* Where the double nearest to a/1000 lies relative to a/1000 (a > 0): the
\* double is m * 2^(e-52) with m the integer nearest to a * 2^(49-e) / 125,
\* so the remainder of a * 2^(49-e) modulo 125 decides: 0 is exact, 1..62
\* rounds down (the double is below), 63..124 rounds up (it is above).
DoubleError(a) ==
    LET r == ((a % 125) * Pow2Mod125(49 - BinaryExponent(a))) % 125
    IN  IF r = 0 THEN 0 ELSE IF r <= 62 THEN -1 ELSE 1

\* A variant of RoundFloat2 that takes the written decimal for the value of the
\* double, so that every half cent is a tie and goes to the even cent.
RoundFloat2DecimalTie(mills) ==
    LET a   == IF mills < 0 THEN 0 - mills ELSE mills
        sgn == IF mills < 0 THEN -1 ELSE 1
        c   == a \div 10
        r   == a % 10
        up  == IF r # 5 THEN r > 5 ELSE c % 2 = 1
    IN  sgn * (IF up THEN c + 1 ELSE c)

\* A variant of RoundFloat2 that cuts the digits after the second decimal.
RoundFloat2Truncating(mills) ==
    LET a   == IF mills < 0 THEN 0 - mills ELSE mills
        sgn == IF mills < 0 THEN -1 ELSE 1
    IN  sgn * (a \div 10)

\* round(float(s), 2) in cents, for s worth `mills` thousandths.  Python rounds
\* the double's exact value to the nearest hundredth, ties to even.
RoundFloat2(mills) ==
    LET a   == IF mills < 0 THEN 0 - mills ELSE mills
        sgn == IF mills < 0 THEN -1 ELSE 1
        c   == a \div 10
        r   == a % 10
        up  == IF r # 5 THEN r > 5
               ELSE IF DoubleError(a) = 0 THEN c % 2 = 1
               ELSE DoubleError(a) = 1
    IN  IF a = 0 THEN 0 ELSE sgn * (IF up THEN c + 1 ELSE c)

(***************************************************************************)
(* Inputs                                                                  *)
(***************************************************************************)
Amount(m) == [numeric |-> TRUE, mills |-> m]
NotANumber == [numeric |-> FALSE, mills |-> 0]
Row(ds, am) == [date_string |-> ds, account_change |-> am]

\* The rows a csv may hold: two transactions on Jan 31, one on the 1st of the
\* next month, one a month later after a gap, amounts with more than two
\* decimals, a date that is no calendar date and an amount that is no number.
CsvRows ==
    { Row(<<1, 31, 2021>>, Amount(10004)),
      Row(<<1, 31, 2021>>, Amount(-2496)),
      Row(<<2, 1, 2021>>,  Amount(5000)),
      Row(<<3, 2, 2021>>,  Amount(7125)),
      Row(<<2, 30, 2021>>, Amount(1000)),
      Row(<<2, 3, 2021>>,  NotANumber) }

CsvFiles == UNION { [1..n -> CsvRows] : n \in 0..MaxRows }

\* The caller's <<initial_chequing, initial_saving>>, in cents.
InitialBalances == { <<50000, 10000>>, <<0, -2500>> }

\* The rows of the chequing csv where one account is followed alone: 500.00
\* and -20.00 on Jan 1 with -10.005 on Jan 3, and of the rows above -2.496 on
\* Jan 31, 7.125 on Mar 2 and the two malformed ones.
LongRows ==
    { Row(<<1, 1, 2021>>, Amount(500000)),
      Row(<<1, 1, 2021>>, Amount(-20000)),
      Row(<<1, 3, 2021>>, Amount(-10005)),
      Row(<<1, 31, 2021>>, Amount(-2496)),
      Row(<<3, 2, 2021>>, Amount(7125)),
      Row(<<2, 30, 2021>>, Amount(1000)),
      Row(<<2, 3, 2021>>, NotANumber) }

LongFiles == UNION { [1..n -> LongRows] : n \in 0..MaxLongRows }

\* The saving csv beside it: no row, or one.
ShortFiles == { <<>>, << Row(<<2, 1, 2021>>, Amount(5000)) >> }

(***************************************************************************)
(* List helpers of Python and numpy                                        *)
(***************************************************************************)
Min(a, b) == IF a <= b THEN a ELSE b

\* set(list)
SetOf(list) == { list[i] : i \in DOMAIN list }

\* zip(a, b): pairs up to the shorter list.
Zip(a, b) == [i \in 1..Min(Len(a), Len(b)) |-> <<a[i], b[i]>>]

\* zip(a, b, c)
Zip3(a, b, c) == [i \in 1..Min(Len(a), Min(Len(b), Len(c))) |-> <<a[i], b[i], c[i]>>]

\* sum(list)
RECURSIVE Sum(_)
Sum(list) == IF list = <<>> THEN 0 ELSE list[1] + Sum(Tail(list))

SetMin(S) == CHOOSE x \in S : \A y \in S : x <= y

\* np.sort of the elements of a set: ascending.
RECURSIVE NpSort(_)
NpSort(S) == IF S = {} THEN <<>> ELSE <<SetMin(S)>> \o NpSort(S \ {SetMin(S)})

\* np.flipud of a one-dimensional array.
Flipud(list) == [i \in 1..Len(list) |-> list[Len(list) + 1 - i]]

\* list.reverse()
Reverse(list) == [i \in 1..Len(list) |-> list[Len(list) + 1 - i]]

\* dict(zip(keys, values)): a later pair replaces an earlier one with its key.
DictZip(keys, values) ==
    LET n == Min(Len(keys), Len(values))
        last(k) == CHOOSE i \in 1..n : keys[i] = k /\ \A j \in 1..n : keys[j] = k => j <= i
    IN  [k \in { keys[i] : i \in 1..n } |-> values[last(k)]]

\* np.cumsum(list)
RECURSIVE CumsumLoop(_, _, _)
CumsumLoop(list, acc, out) ==
    IF list = <<>> THEN out
    ELSE CumsumLoop(Tail(list), acc + list[1], Append(out, acc + list[1]))

NpCumsum(list) == CumsumLoop(list, 0, <<>>)

(***************************************************************************)
(* The methods of BankingHistory                                           *)
(***************************************************************************)
\* A variant of ExtractRaises in which only the date of a row can be refused.
ExtractRaisesOnDatesOnly(csv_rows) ==
    \E i \in DOMAIN csv_rows : ~ValidDateString(csv_rows[i].date_string)

\* Whether extract_datetime_accountchange raises ValueError on some row.
ExtractRaises(csv_rows) ==
    \E i \in DOMAIN csv_rows :
        \/ ~ValidDateString(csv_rows[i].date_string)
        \/ ~csv_rows[i].account_change.numeric

\* <<dates_list, changes_list>>
extract_datetime_accountchange(csv_rows) ==
    << [i \in DOMAIN csv_rows |-> Strptime(csv_rows[i].date_string)],
       [i \in DOMAIN csv_rows |-> RoundFloat2(csv_rows[i].account_change.mills)] >>

\* A variant of ChangeOnDate that keeps only the first change found on the date.
ChangeOnDateFirstOnly(zipped_date_change, date_temp) ==
    LET on == SelectSeq(zipped_date_change, LAMBDA tup : tup[1] = date_temp)
    IN  IF on = <<>> THEN <<>> ELSE << on[1][2] >>

\* [tup[1] for tup in zipped_date_change if tup[0] == date_temp]
ChangeOnDate(zipped_date_change, date_temp) ==
    LET on == SelectSeq(zipped_date_change, LAMBDA tup : tup[1] = date_temp)
    IN  [i \in DOMAIN on |-> on[i][2]]

\* <<collapsed_dates, collapsed_changes>>
collapse_date_change(list_of_dates, list_of_changes) ==
    LET unique_dates == SetOf(list_of_dates)
        sorted_unique_dates == Flipud(NpSort(unique_dates))
        zipped_date_change == Zip(list_of_dates, list_of_changes)
    IN  << sorted_unique_dates,
           [i \in DOMAIN sorted_unique_dates |->
                Sum(ChangeOnDate(zipped_date_change, sorted_unique_dates[i]))] >>

\* The while loop of fill_no_transact_days.
RECURSIVE FillLoop(_, _, _, _, _, _)
FillLoop(current_day, last_day, list_of_dates, day_change_lookup, all_days, all_changes) ==
    IF current_day <= last_day
    THEN FillLoop(current_day + 1, last_day, list_of_dates, day_change_lookup,
                  Append(all_days, current_day),
                  Append(all_changes,
                         IF current_day \in SetOf(list_of_dates)
                         THEN day_change_lookup[current_day] ELSE 0))
    ELSE <<all_days, all_changes>>

\* A variant of fill_no_transact_days that returns the transaction days alone.
fill_no_transact_days_sparse(list_of_dates, list_of_changes) ==
    <<list_of_dates, list_of_changes>>

\* A variant of fill_no_transact_days whose loop runs while current_day < last_day.
fill_no_transact_days_exclusive(list_of_dates, list_of_changes) ==
    FillLoop(list_of_dates[1], list_of_dates[Len(list_of_dates)] - 1, list_of_dates,
             DictZip(list_of_dates, list_of_changes), <<>>, <<>>)

\* A variant of fill_no_transact_days whose loop runs one day past last_day.
fill_no_transact_days_overrun(list_of_dates, list_of_changes) ==
    FillLoop(list_of_dates[1], list_of_dates[Len(list_of_dates)] + 1, list_of_dates,
             DictZip(list_of_dates, list_of_changes), <<>>, <<>>)

\* <<all_days, all_changes>>; list_of_dates[0] raises IndexError on an empty list.
fill_no_transact_days(list_of_dates, list_of_changes) ==
    FillLoop(list_of_dates[1], list_of_dates[Len(list_of_dates)], list_of_dates,
             DictZip(list_of_dates, list_of_changes), <<>>, <<>>)

\* A variant of convert_changes_to_balances that adds each day's change alone.
convert_changes_without_cumsum(initial_balance, list_of_changes) ==
    [i \in DOMAIN list_of_changes |-> initial_balance + list_of_changes[i]]

\* rounded_balances
convert_changes_to_balances(initial_balance, list_of_changes) ==
    LET cumulative_sum_changes == NpCumsum(list_of_changes)
    IN  [i \in DOMAIN cumulative_sum_changes |-> initial_balance + cumulative_sum_changes[i]]

\* A variant of MonthStart that keeps the day of the date.
MonthStartKeepsDay(date) ==
    LET fields == CivilFromDays(date) IN DaysFromCivil(fields[1], fields[2], fields[3])

\* datetime.datetime(day=1, month=date.month, year=date.year)
MonthStart(date) ==
    LET fields == CivilFromDays(date) IN DaysFromCivil(fields[1], fields[2], 1)

\* A variant of ChangeOnMonth that keeps only the first row of the month.
ChangeOnMonthFirstRow(zipped_month_change_balance, month_year_temp) ==
    LET on == SelectSeq(zipped_month_change_balance, LAMBDA tup : tup[1] = month_year_temp)
    IN  IF on = <<>> THEN <<>> ELSE << on[1][2] >>

\* The change of every row of the month, in the order of the rows.
ChangeOnMonth(zipped_month_change_balance, month_year_temp) ==
    LET on == SelectSeq(zipped_month_change_balance, LAMBDA tup : tup[1] = month_year_temp)
    IN  [i \in DOMAIN on |-> on[i][2]]

\* A variant of InitialMonthBalance that falls back to the last day of the history.
InitialMonthBalanceLastDay(zipped_day_change_balance, month_year_temp) ==
    LET on == SelectSeq(zipped_day_change_balance, LAMBDA tup : tup[1] = month_year_temp)
    IN  IF on # <<>> THEN on[1][3]
        ELSE zipped_day_change_balance[Len(zipped_day_change_balance)][3]

\* The balance of the day equal to the month's start; when there is none (the
\* IndexError of [...][0]), the balance of the first day of the history.
InitialMonthBalance(zipped_day_change_balance, month_year_temp) ==
    LET on == SelectSeq(zipped_day_change_balance, LAMBDA tup : tup[1] = month_year_temp)
    IN  IF on # <<>> THEN on[1][3] ELSE zipped_day_change_balance[1][3]

\* <<sorted_unique_month_years, monthly_account_changes, monthly_account_balances>>
get_monthly_change_balance(list_of_dates, list_of_changes, list_of_balances) ==
    LET zipped_day_change_balance == Zip3(list_of_dates, list_of_changes, list_of_balances)
        zipped_month_change_balance ==
            [i \in DOMAIN zipped_day_change_balance |->
                << MonthStart(zipped_day_change_balance[i][1]),
                   zipped_day_change_balance[i][2],
                   zipped_day_change_balance[i][3] >>]
        month_years == [i \in DOMAIN zipped_month_change_balance |->
                            zipped_month_change_balance[i][1]]
        sorted_unique_month_years == NpSort(SetOf(month_years))
    IN  << sorted_unique_month_years,
           [i \in DOMAIN sorted_unique_month_years |->
                Sum(ChangeOnMonth(zipped_month_change_balance, sorted_unique_month_years[i]))],
           [i \in DOMAIN sorted_unique_month_years |->
                InitialMonthBalance(zipped_day_change_balance, sorted_unique_month_years[i])] >>

(***************************************************************************)
(* BankingHistory.__init__ as a sequence of steps                          *)
(***************************************************************************)
\* ---------------------------------------------------------------------------
\* plot_pdf, lines 534-545: the path of the summary.  A path is a string, and a
\* string a sequence of pieces, cut so that '.pdf', '(', ')' and every digit
\* are pieces of their own and no other piece holds one of them.

DigitText == <<"0", "1", "2", "3", "4", "5", "6", "7", "8", "9">>

\* '{}'.format(n) of a natural number.
RECURSIVE Format(_)
Format(n) ==
    IF n < 10 THEN <<DigitText[n + 1]>>
    ELSE Format(n \div 10) \o <<DigitText[(n % 10) + 1]>>

\* str.replace(old, new): every occurrence, left to right, none overlapping.
RECURSIVE StrReplace(_, _, _)
StrReplace(str, old, new) ==
    IF Len(str) < Len(old) THEN str
    ELSE IF SubSeq(str, 1, Len(old)) = old
         THEN new \o StrReplace(SubSeq(str, Len(old) + 1, Len(str)), old, new)
         ELSE <<Head(str)>> \o StrReplace(Tail(str), old, new)

\* '\\FinancialSummary.pdf', line 536.
SummaryName == <<"\\FinancialSummary", ".pdf">>

\* ' (1).pdf', line 538.
FirstSuffix == <<" ", "(", "1", ")", ".pdf">>

\* '({}).pdf'.format(n), lines 542-543.
NumberedSuffix(n) == <<"(">> \o Format(n) \o <<")", ".pdf">>

\* The folder of a path: what stands before the last separator.
Dirname(path) ==
    LET seps == {i \in 1..Len(path) : path[i] = "\\FinancialSummary"}
    IN  SubSeq(path, 1, (CHOOSE i \in seps : \A j \in seps : j <= i) - 1)

\* The k-th name of the series FinancialSummary.pdf, FinancialSummary (1).pdf, ...
SummaryNumbered(k) ==
    IF k = 0 THEN SummaryName
    ELSE <<"\\FinancialSummary", " ", "(">> \o Format(k) \o <<")", ".pdf">>

\* Target folders (line 709 accepts every existing directory): the folders
\* Summaries, Summaries.pdf and Summaries (1).pdf of drive C.
PdfFolders ==
    { <<"C:\\Summaries">>,
      <<"C:\\Summaries", ".pdf">>,
      <<"C:\\Summaries", " ", "(", "1", ")", ".pdf">> }

\* The summaries that may lie in a folder before the call.
SummariesIn(folder) == {folder \o SummaryNumbered(k) : k \in 0..(MaxSummaries - 1)}

VARIABLES
    pc,
    initial_chequing, initial_saving, chequing_csvs, saving_csvs,
    cheq_days, cheq_changes, save_days, save_changes,
    cheq_unique_days, cheq_daily_changes, save_unique_days, save_daily_changes,
    cheq_fill_days, cheq_fill_daily_changes, save_fill_days, save_fill_daily_changes,
    initial_cheq_balance, initial_save_balance, initial_bank_balance,
    cheq_daily_balances, save_daily_balances,
    cheq_months, cheq_monthly_changes, cheq_monthly_balances,
    save_months, save_monthly_changes, save_monthly_balances,
    bank_days, bank_changes, bank_unique_days, bank_daily_changes,
    bank_fill_days, bank_fill_daily_changes, bank_daily_balances,
    bank_months, bank_monthly_changes, bank_monthly_balances,
    pdf_path, files, folders, initial_pdf_path, increment_count

inputs    == <<initial_chequing, initial_saving, chequing_csvs, saving_csvs>>
extracted == <<cheq_days, cheq_changes, save_days, save_changes>>
collapsed == <<cheq_unique_days, cheq_daily_changes, save_unique_days, save_daily_changes>>
filled    == <<cheq_fill_days, cheq_fill_daily_changes, save_fill_days, save_fill_daily_changes>>
initials  == <<initial_cheq_balance, initial_save_balance>>
balances  == <<cheq_daily_balances, save_daily_balances>>
monthlies == <<cheq_months, cheq_monthly_changes, cheq_monthly_balances,
               save_months, save_monthly_changes, save_monthly_balances>>
aggregate == <<bank_days, bank_changes>>
bank_collapsed == <<bank_unique_days, bank_daily_changes>>
bank_filled    == <<bank_fill_days, bank_fill_daily_changes>>
bank_monthlies == <<bank_months, bank_monthly_changes, bank_monthly_balances>>

pdf == <<pdf_path, files, folders, initial_pdf_path, increment_count>>

vars == <<pc, pdf, inputs, extracted, collapsed, filled, initials, initial_bank_balance,
          balances, monthlies, aggregate, bank_collapsed, bank_filled,
          bank_daily_balances, bank_monthlies>>

\* The state on entry, lines 84-91: the balances stored, the csv rows loaded.
Init ==
    /\ pc = "extract"
    /\ \E b \in InitialBalances : initial_chequing = b[1] /\ initial_saving = b[2]
    /\ chequing_csvs \in CsvFiles
    /\ saving_csvs \in CsvFiles
    /\ initial_cheq_balance = initial_chequing
    /\ initial_save_balance = initial_saving
    /\ initial_bank_balance = 0
    /\ cheq_days = <<>> /\ cheq_changes = <<>> /\ save_days = <<>> /\ save_changes = <<>>
    /\ cheq_unique_days = <<>> /\ cheq_daily_changes = <<>>
    /\ save_unique_days = <<>> /\ save_daily_changes = <<>>
    /\ cheq_fill_days = <<>> /\ cheq_fill_daily_changes = <<>>
    /\ save_fill_days = <<>> /\ save_fill_daily_changes = <<>>
    /\ cheq_daily_balances = <<>> /\ save_daily_balances = <<>>
    /\ cheq_months = <<>> /\ cheq_monthly_changes = <<>> /\ cheq_monthly_balances = <<>>
    /\ save_months = <<>> /\ save_monthly_changes = <<>> /\ save_monthly_balances = <<>>
    /\ bank_days = <<>> /\ bank_changes = <<>>
    /\ bank_unique_days = <<>> /\ bank_daily_changes = <<>>
    /\ bank_fill_days = <<>> /\ bank_fill_daily_changes = <<>>
    /\ bank_daily_balances = <<>>
    /\ bank_months = <<>> /\ bank_monthly_changes = <<>> /\ bank_monthly_balances = <<>>
    /\ pdf_path = <<>> /\ files = {} /\ folders = {}
    /\ initial_pdf_path = <<>> /\ increment_count = 0

\* Lines 94-97, every row accepted.
Extract ==
    /\ pc = "extract"
    /\ ~ExtractRaises(chequing_csvs) /\ ~ExtractRaises(saving_csvs)
    /\ LET c == extract_datetime_accountchange(chequing_csvs)
           s == extract_datetime_accountchange(saving_csvs)
       IN  /\ cheq_days' = c[1]
           /\ cheq_changes' = c[2]
           /\ save_days' = s[1]
           /\ save_changes' = s[2]
    /\ pc' = "collapse"
    /\ UNCHANGED <<pdf, inputs, collapsed, filled, initials, initial_bank_balance, balances,
                   monthlies, aggregate, bank_collapsed, bank_filled,
                   bank_daily_balances, bank_monthlies>>

\* Lines 94-97, strptime or float raises: the constructor ends with the error.
ExtractFails ==
    /\ pc = "extract"
    /\ ExtractRaises(chequing_csvs) \/ ExtractRaises(saving_csvs)
    /\ pc' = "ValueError"
    /\ UNCHANGED <<pdf, inputs, extracted, collapsed, filled, initials, initial_bank_balance,
                   balances, monthlies, aggregate, bank_collapsed, bank_filled,
                   bank_daily_balances, bank_monthlies>>

\* Lines 100-103.
Collapse ==
    /\ pc = "collapse"
    /\ LET c == collapse_date_change(cheq_days, cheq_changes)
           s == collapse_date_change(save_days, save_changes)
       IN  /\ cheq_unique_days' = c[1]
           /\ cheq_daily_changes' = c[2]
           /\ save_unique_days' = s[1]
           /\ save_daily_changes' = s[2]
    /\ pc' = "reverse"
    /\ UNCHANGED <<pdf, inputs, extracted, filled, initials, initial_bank_balance, balances,
                   monthlies, aggregate, bank_collapsed, bank_filled,
                   bank_daily_balances, bank_monthlies>>

\* Lines 106-109.
ReverseLists ==
    /\ pc = "reverse"
    /\ cheq_unique_days' = Reverse(cheq_unique_days)
    /\ cheq_daily_changes' = Reverse(cheq_daily_changes)
    /\ save_unique_days' = Reverse(save_unique_days)
    /\ save_daily_changes' = Reverse(save_daily_changes)
    /\ pc' = "fill"
    /\ UNCHANGED <<pdf, inputs, extracted, filled, initials, initial_bank_balance, balances,
                   monthlies, aggregate, bank_collapsed, bank_filled,
                   bank_daily_balances, bank_monthlies>>

\* Lines 114-117, both accounts with at least one date.
Fill ==
    /\ pc = "fill"
    /\ cheq_unique_days # <<>> /\ save_unique_days # <<>>
    /\ LET c == fill_no_transact_days(cheq_unique_days, cheq_daily_changes)
           s == fill_no_transact_days(save_unique_days, save_daily_changes)
       IN  /\ cheq_fill_days' = c[1]
           /\ cheq_fill_daily_changes' = c[2]
           /\ save_fill_days' = s[1]
           /\ save_fill_daily_changes' = s[2]
    /\ pc' = "correct"
    /\ UNCHANGED <<pdf, inputs, extracted, collapsed, initials, initial_bank_balance, balances,
                   monthlies, aggregate, bank_collapsed, bank_filled,
                   bank_daily_balances, bank_monthlies>>

\* Lines 114-117, list_of_dates[0] of an empty list (line 306): IndexError.
FillFails ==
    /\ pc = "fill"
    /\ cheq_unique_days = <<>> \/ save_unique_days = <<>>
    /\ pc' = "IndexError"
    /\ UNCHANGED <<pdf, inputs, extracted, collapsed, filled, initials, initial_bank_balance,
                   balances, monthlies, aggregate, bank_collapsed, bank_filled,
                   bank_daily_balances, bank_monthlies>>

\* A variant of CorrectBalances that subtracts the change of the last date.
CorrectBalancesLastDay ==
    /\ pc = "correct"
    /\ initial_cheq_balance' = initial_cheq_balance - cheq_daily_changes[Len(cheq_daily_changes)]
    /\ initial_save_balance' = initial_save_balance - save_daily_changes[Len(save_daily_changes)]
    /\ pc' = "accumulate"
    /\ UNCHANGED <<pdf, inputs, extracted, collapsed, filled, initial_bank_balance, balances,
                   monthlies, aggregate, bank_collapsed, bank_filled,
                   bank_daily_balances, bank_monthlies>>

\* Lines 121-122.
CorrectBalances ==
    /\ pc = "correct"
    /\ initial_cheq_balance' = initial_cheq_balance - cheq_daily_changes[1]
    /\ initial_save_balance' = initial_save_balance - save_daily_changes[1]
    /\ pc' = "accumulate"
    /\ UNCHANGED <<pdf, inputs, extracted, collapsed, filled, initial_bank_balance, balances,
                   monthlies, aggregate, bank_collapsed, bank_filled,
                   bank_daily_balances, bank_monthlies>>

\* Lines 125-128.
Accumulate ==
    /\ pc = "accumulate"
    /\ cheq_daily_balances' =
           convert_changes_to_balances(initial_cheq_balance, cheq_fill_daily_changes)
    /\ save_daily_balances' =
           convert_changes_to_balances(initial_save_balance, save_fill_daily_changes)
    /\ pc' = "monthly"
    /\ UNCHANGED <<pdf, inputs, extracted, collapsed, filled, initials, initial_bank_balance,
                   monthlies, aggregate, bank_collapsed, bank_filled,
                   bank_daily_balances, bank_monthlies>>

\* Lines 131-160.
Monthly ==
    /\ pc = "monthly"
    /\ LET c == get_monthly_change_balance(cheq_fill_days, cheq_fill_daily_changes,
                                           cheq_daily_balances)
           s == get_monthly_change_balance(save_fill_days, save_fill_daily_changes,
                                           save_daily_balances)
       IN  /\ cheq_months' = c[1]
           /\ cheq_monthly_changes' = c[2]
           /\ cheq_monthly_balances' = c[3]
           /\ save_months' = s[1]
           /\ save_monthly_changes' = s[2]
           /\ save_monthly_balances' = s[3]
    /\ pc' = "aggregate"
    /\ UNCHANGED <<pdf, inputs, extracted, collapsed, filled, initials, initial_bank_balance,
                   balances, aggregate, bank_collapsed, bank_filled,
                   bank_daily_balances, bank_monthlies>>

\* A variant of Aggregate that concatenates the changes saving first.
AggregateSwapped ==
    /\ pc = "aggregate"
    /\ bank_days' = cheq_fill_days \o save_fill_days
    /\ bank_changes' = save_fill_daily_changes \o cheq_fill_daily_changes
    /\ pc' = "bank_collapse"
    /\ UNCHANGED <<pdf, inputs, extracted, collapsed, filled, initials, initial_bank_balance,
                   balances, monthlies, bank_collapsed, bank_filled,
                   bank_daily_balances, bank_monthlies>>

\* Lines 163-164.
Aggregate ==
    /\ pc = "aggregate"
    /\ bank_days' = cheq_fill_days \o save_fill_days
    /\ bank_changes' = cheq_fill_daily_changes \o save_fill_daily_changes
    /\ pc' = "bank_collapse"
    /\ UNCHANGED <<pdf, inputs, extracted, collapsed, filled, initials, initial_bank_balance,
                   balances, monthlies, bank_collapsed, bank_filled,
                   bank_daily_balances, bank_monthlies>>

\* Lines 167-168.
BankCollapse ==
    /\ pc = "bank_collapse"
    /\ LET b == collapse_date_change(bank_days, bank_changes)
       IN  /\ bank_unique_days' = b[1]
           /\ bank_daily_changes' = b[2]
    /\ pc' = "bank_reverse"
    /\ UNCHANGED <<pdf, inputs, extracted, collapsed, filled, initials, initial_bank_balance,
                   balances, monthlies, aggregate, bank_filled,
                   bank_daily_balances, bank_monthlies>>

\* Lines 171-172.
BankReverse ==
    /\ pc = "bank_reverse"
    /\ bank_unique_days' = Reverse(bank_unique_days)
    /\ bank_daily_changes' = Reverse(bank_daily_changes)
    /\ pc' = "bank_fill"
    /\ UNCHANGED <<pdf, inputs, extracted, collapsed, filled, initials, initial_bank_balance,
                   balances, monthlies, aggregate, bank_filled,
                   bank_daily_balances, bank_monthlies>>

\* Lines 177-178.
BankFill ==
    /\ pc = "bank_fill"
    /\ LET b == fill_no_transact_days(bank_unique_days, bank_daily_changes)
       IN  /\ bank_fill_days' = b[1]
           /\ bank_fill_daily_changes' = b[2]
    /\ pc' = "bank_initial"
    /\ UNCHANGED <<pdf, inputs, extracted, collapsed, filled, initials, initial_bank_balance,
                   balances, monthlies, aggregate, bank_collapsed,
                   bank_daily_balances, bank_monthlies>>

\* A variant of BankInitial that corrects the sum once more, by the first
\* combined change.
BankInitialRecorrected ==
    /\ pc = "bank_initial"
    /\ initial_bank_balance' =
           initial_cheq_balance + initial_save_balance - bank_daily_changes[1]
    /\ pc' = "bank_accumulate"
    /\ UNCHANGED <<pdf, inputs, extracted, collapsed, filled, initials,
                   balances, monthlies, aggregate, bank_collapsed, bank_filled,
                   bank_daily_balances, bank_monthlies>>

\* A variant of BankInitial that adds the balances the caller supplied.
BankInitialUncorrected ==
    /\ pc = "bank_initial"
    /\ initial_bank_balance' = initial_chequing + initial_saving
    /\ pc' = "bank_accumulate"
    /\ UNCHANGED <<pdf, inputs, extracted, collapsed, filled, initials,
                   balances, monthlies, aggregate, bank_collapsed, bank_filled,
                   bank_daily_balances, bank_monthlies>>

\* Lines 184-185.
BankInitial ==
    /\ pc = "bank_initial"
    /\ initial_bank_balance' = initial_cheq_balance + initial_save_balance
    /\ pc' = "bank_accumulate"
    /\ UNCHANGED <<pdf, inputs, extracted, collapsed, filled, initials,
                   balances, monthlies, aggregate, bank_collapsed, bank_filled,
                   bank_daily_balances, bank_monthlies>>

\* Lines 188-195.
BankAccumulate ==
    /\ pc = "bank_accumulate"
    /\ bank_daily_balances' =
           convert_changes_to_balances(initial_bank_balance, bank_fill_daily_changes)
    /\ pc' = "bank_monthly"
    /\ UNCHANGED <<pdf, inputs, extracted, collapsed, filled, initials, initial_bank_balance,
                   balances, monthlies, aggregate, bank_collapsed, bank_filled,
                   bank_monthlies>>

\* Lines 198-206.
BankMonthly ==
    /\ pc = "bank_monthly"
    /\ LET b == get_monthly_change_balance(bank_fill_days, bank_fill_daily_changes,
                                           bank_daily_balances)
       IN  /\ bank_months' = b[1]
           /\ bank_monthly_changes' = b[2]
           /\ bank_monthly_balances' = b[3]
    /\ pc' = "done"
    /\ UNCHANGED <<pdf, inputs, extracted, collapsed, filled, initials, initial_bank_balance,
                   balances, monthlies, aggregate, bank_collapsed, bank_filled,
                   bank_daily_balances>>

\* The same entry with a longer chequing csv beside a short saving csv.
InitLong ==
    /\ pc = "extract"
    /\ \E b \in InitialBalances : initial_chequing = b[1] /\ initial_saving = b[2]
    /\ chequing_csvs \in LongFiles
    /\ saving_csvs \in ShortFiles
    /\ initial_cheq_balance = initial_chequing
    /\ initial_save_balance = initial_saving
    /\ initial_bank_balance = 0
    /\ cheq_days = <<>> /\ cheq_changes = <<>> /\ save_days = <<>> /\ save_changes = <<>>
    /\ cheq_unique_days = <<>> /\ cheq_daily_changes = <<>>
    /\ save_unique_days = <<>> /\ save_daily_changes = <<>>
    /\ cheq_fill_days = <<>> /\ cheq_fill_daily_changes = <<>>
    /\ save_fill_days = <<>> /\ save_fill_daily_changes = <<>>
    /\ cheq_daily_balances = <<>> /\ save_daily_balances = <<>>
    /\ cheq_months = <<>> /\ cheq_monthly_changes = <<>> /\ cheq_monthly_balances = <<>>
    /\ save_months = <<>> /\ save_monthly_changes = <<>> /\ save_monthly_balances = <<>>
    /\ bank_days = <<>> /\ bank_changes = <<>>
    /\ bank_unique_days = <<>> /\ bank_daily_changes = <<>>
    /\ bank_fill_days = <<>> /\ bank_fill_daily_changes = <<>>
    /\ bank_daily_balances = <<>>
    /\ bank_months = <<>> /\ bank_monthly_changes = <<>> /\ bank_monthly_balances = <<>>
    /\ pdf_path = <<>> /\ files = {} /\ folders = {}
    /\ initial_pdf_path = <<>> /\ increment_count = 0

Next ==
    \/ Extract \/ ExtractFails
    \/ Collapse \/ ReverseLists
    \/ Fill \/ FillFails
    \/ CorrectBalances \/ Accumulate \/ Monthly
    \/ Aggregate \/ BankCollapse \/ BankReverse \/ BankFill
    \/ BankInitial \/ BankAccumulate \/ BankMonthly

Spec == Init /\ [][Next]_vars

SpecLong == InitLong /\ [][Next]_vars

\* ---------------------------------------------------------------------------
\* plot_pdf on a constructed history (line 734 calls it after the constructor).

\* The history constructed from one row 02/01/2021 5.00 in either csv and the
\* balances 500.00 and 100.00.
Constructed ==
    LET d == DaysFromCivil(2021, 2, 1)
        csv == <<Row(<<2, 1, 2021>>, Amount(5000))>>
    IN  /\ initial_chequing = 50000 /\ initial_saving = 10000
        /\ chequing_csvs = csv /\ saving_csvs = csv
        /\ cheq_days = <<d>> /\ cheq_changes = <<500>>
        /\ save_days = <<d>> /\ save_changes = <<500>>
        /\ cheq_unique_days = <<d>> /\ cheq_daily_changes = <<500>>
        /\ save_unique_days = <<d>> /\ save_daily_changes = <<500>>
        /\ cheq_fill_days = <<d>> /\ cheq_fill_daily_changes = <<500>>
        /\ save_fill_days = <<d>> /\ save_fill_daily_changes = <<500>>
        /\ initial_cheq_balance = 49500 /\ initial_save_balance = 9500
        /\ cheq_daily_balances = <<50000>> /\ save_daily_balances = <<10000>>
        /\ cheq_months = <<d>> /\ cheq_monthly_changes = <<500>>
        /\ cheq_monthly_balances = <<50000>>
        /\ save_months = <<d>> /\ save_monthly_changes = <<500>>
        /\ save_monthly_balances = <<10000>>
        /\ bank_days = <<d, d>> /\ bank_changes = <<500, 500>>
        /\ bank_unique_days = <<d>> /\ bank_daily_changes = <<1000>>
        /\ bank_fill_days = <<d>> /\ bank_fill_daily_changes = <<1000>>
        /\ initial_bank_balance = 59000
        /\ bank_daily_balances = <<60000>>
        /\ bank_months = <<d>> /\ bank_monthly_changes = <<1000>>
        /\ bank_monthly_balances = <<60000>>

\* The call plot_pdf(pdf_path): the target folder exists, any of the numbered
\* summaries may lie in it, and the folder that line 538 would name instead
\* may exist or not.
InitPdf ==
    /\ pc = "plot_pdf"
    /\ Constructed
    /\ pdf_path \in PdfFolders
    /\ files \in SUBSET SummariesIn(pdf_path)
    /\ \E others \in SUBSET ({StrReplace(pdf_path, <<".pdf">>, FirstSuffix)} \ {pdf_path}) :
           folders = {pdf_path} \cup others
    /\ initial_pdf_path = <<>>
    /\ increment_count = 0

\* Lines 536-539: the first path, and the first renaming when it is taken.
PlotPdf ==
    /\ pc = "plot_pdf"
    /\ LET path == pdf_path \o SummaryName
       IN  IF path \in files
           THEN /\ initial_pdf_path' = StrReplace(path, <<".pdf">>, FirstSuffix)
                /\ increment_count' = 2
                /\ pc' = "while"
           ELSE /\ initial_pdf_path' = path
                /\ increment_count' = increment_count
                /\ pc' = "savefig"
    /\ UNCHANGED <<pdf_path, files, folders, inputs, extracted, collapsed, filled,
                   initials, initial_bank_balance, balances, monthlies, aggregate,
                   bank_collapsed, bank_filled, bank_daily_balances, bank_monthlies>>

\* Lines 540-544: the path is taken, the number is raised.
WhileBody ==
    /\ pc = "while"
    /\ initial_pdf_path \in files
    /\ initial_pdf_path' = StrReplace(initial_pdf_path,
                                      NumberedSuffix(increment_count - 1),
                                      NumberedSuffix(increment_count))
    /\ increment_count' = increment_count + 1
    /\ pc' = "while"
    /\ UNCHANGED <<pdf_path, files, folders, inputs, extracted, collapsed, filled,
                   initials, initial_bank_balance, balances, monthlies, aggregate,
                   bank_collapsed, bank_filled, bank_daily_balances, bank_monthlies>>

\* Line 540: no file at the path, the loop ends.
WhileExit ==
    /\ pc = "while"
    /\ initial_pdf_path \notin files
    /\ pc' = "savefig"
    /\ UNCHANGED <<pdf, inputs, extracted, collapsed, filled,
                   initials, initial_bank_balance, balances, monthlies, aggregate,
                   bank_collapsed, bank_filled, bank_daily_balances, bank_monthlies>>

\* Line 545: the figure is written, over whatever file the path names.
Savefig ==
    /\ pc = "savefig"
    /\ Dirname(initial_pdf_path) \in folders
    /\ files' = files \cup {initial_pdf_path}
    /\ pc' = "saved"
    /\ UNCHANGED <<pdf_path, folders, initial_pdf_path, increment_count, inputs,
                   extracted, collapsed, filled,
                   initials, initial_bank_balance, balances, monthlies, aggregate,
                   bank_collapsed, bank_filled, bank_daily_balances, bank_monthlies>>

\* Line 545, the folder of the path does not exist: open() raises.
SavefigFails ==
    /\ pc = "savefig"
    /\ Dirname(initial_pdf_path) \notin folders
    /\ pc' = "FileNotFoundError"
    /\ UNCHANGED <<pdf, inputs, extracted, collapsed, filled,
                   initials, initial_bank_balance, balances, monthlies, aggregate,
                   bank_collapsed, bank_filled, bank_daily_balances, bank_monthlies>>

NextPdf ==
    \/ PlotPdf
    \/ WhileBody \/ WhileExit
    \/ Savefig \/ SavefigFails

SpecPdf == InitPdf /\ [][NextPdf]_vars

(***************************************************************************)
(* Properties                                                              *)
(***************************************************************************)
\* The sum of f over the index set I.
RECURSIVE SumOver(_, _)
SumOver(I, f) ==
    IF I = {} THEN 0
    ELSE LET i == CHOOSE j \in I : TRUE IN f[i] + SumOver(I \ {i}, f)

\* The total of the changes recorded on date d.
TotalOn(dates, changes, d) == SumOver({ i \in DOMAIN dates : dates[i] = d }, changes)

IndexOf(list, x) == CHOOSE i \in DOMAIN list : list[i] = x

First(list) == list[1]
Last(list) == list[Len(list)]

\* The balance of an account at the end of day d: the balance its daily series
\* records on d; before the series, the balance the accumulation started from;
\* after the series, the last balance recorded.
BalanceOn(days, daily_balances, start_balance, d) ==
    IF d < First(days) THEN start_balance
    ELSE IF d > Last(days) THEN Last(daily_balances)
    ELSE daily_balances[IndexOf(days, d)]

\* C1: once the history is constructed, the combined daily series runs from
\* the earliest to the latest date over both accounts, and on every one of its
\* dates the combined balance is the chequing balance plus the saving balance
\* of that date (an account whose own series does not reach the date counts
\* with the balance it carries there).
CombinedBalanceIsSum ==
    pc = "done" =>
        /\ First(bank_fill_days) = Min(First(cheq_fill_days), First(save_fill_days))
        /\ Last(bank_fill_days) = 0 - Min(0 - Last(cheq_fill_days), 0 - Last(save_fill_days))
        /\ Len(bank_daily_balances) = Len(bank_fill_days)
        /\ \A i \in DOMAIN bank_fill_days :
               bank_daily_balances[i] =
                   BalanceOn(cheq_fill_days, cheq_daily_balances, initial_cheq_balance,
                             bank_fill_days[i])
                   + BalanceOn(save_fill_days, save_daily_balances, initial_save_balance,
                               bank_fill_days[i])

\* A constructed history whose accounts cover different date ranges, each
\* with a change of its own.
CombinedBalanceWitness ==
    /\ pc = "done"
    /\ First(cheq_fill_days) < First(save_fill_days)
    /\ Last(cheq_fill_days) < Last(save_fill_days)
    /\ First(save_fill_days) <= Last(cheq_fill_days)
    /\ First(cheq_fill_daily_changes) # 0
    /\ Last(save_fill_daily_changes) # 0

\* C2: for each account the accumulation starts from the supplied initial
\* balance minus the total change of the earliest transaction date, and the
\* balance recorded on the earliest date of the daily series is the supplied
\* initial balance.
InitialBalanceReproduced ==
    pc = "done" =>
        /\ First(cheq_fill_days) = SetMin(SetOf(cheq_days))
        /\ initial_cheq_balance =
               initial_chequing - TotalOn(cheq_days, cheq_changes, SetMin(SetOf(cheq_days)))
        /\ Len(cheq_daily_balances) >= 1
        /\ First(cheq_daily_balances) = initial_chequing
        /\ First(save_fill_days) = SetMin(SetOf(save_days))
        /\ initial_save_balance =
               initial_saving - TotalOn(save_days, save_changes, SetMin(SetOf(save_days)))
        /\ Len(save_daily_balances) >= 1
        /\ First(save_daily_balances) = initial_saving

\* A constructed history with two chequing records on the earliest date and
\* the saving records given latest first.
InitialBalanceWitness ==
    /\ pc = "done"
    /\ Len(cheq_days) = 2 /\ cheq_days[1] = cheq_days[2]
    /\ cheq_changes[1] # cheq_changes[2]
    /\ Len(save_days) = 2 /\ save_days[1] > save_days[2]
    /\ initial_save_balance # initial_saving

\* What collapse_date_change owes its caller.
CollapseCorrect(in_dates, in_changes, out_dates, out_changes) ==
    /\ Len(out_dates) = Len(out_changes)
    /\ SetOf(out_dates) = SetOf(in_dates)
    /\ Cardinality(SetOf(out_dates)) = Len(out_dates)
    /\ \A i \in DOMAIN out_dates :
           out_changes[i] = TotalOn(in_dates, in_changes, out_dates[i])

\* C3: collapse_date_change returns every date of its input exactly once and
\* no other date, each paired with the total of the amounts recorded on it.
CollapseSumsPerDate ==
    /\ pc = "reverse" =>
           /\ CollapseCorrect(cheq_days, cheq_changes, cheq_unique_days, cheq_daily_changes)
           /\ CollapseCorrect(save_days, save_changes, save_unique_days, save_daily_changes)
    /\ pc = "bank_reverse" =>
           CollapseCorrect(bank_days, bank_changes, bank_unique_days, bank_daily_changes)

\* The collapser has run on two chequing records of one date and on saving
\* records of two dates given latest first.
CollapseWitness ==
    /\ pc = "reverse"
    /\ Len(cheq_days) = 2 /\ Len(cheq_unique_days) = 1
    /\ cheq_changes[1] # cheq_changes[2]
    /\ Len(save_days) = 2 /\ save_days[1] > save_days[2]

Ascending(list) == \A i \in DOMAIN list : \A j \in DOMAIN list : i < j => list[i] < list[j]

\* C4: the dates collapse_date_change returns are in increasing time order.
CollapseAscending ==
    /\ pc = "reverse" => Ascending(cheq_unique_days) /\ Ascending(save_unique_days)
    /\ pc = "bank_reverse" => Ascending(bank_unique_days)

\* C5: with an account of zero records the constructor ends at the collapser:
\* no empty series comes back from it and no later stage is reached.
EmptyInputStopsAtCollapser ==
    (chequing_csvs = <<>> \/ saving_csvs = <<>>) =>
        pc \in {"extract", "collapse", "ValueError", "EmptyTransactionSetError"}

\* What fill_no_transact_days owes its caller.
FillCorrect(in_dates, in_changes, out_days, out_changes) ==
    /\ Len(out_days) = Last(in_dates) - First(in_dates) + 1
    /\ Len(out_changes) = Len(out_days)
    /\ \A i \in DOMAIN out_days : out_days[i] = First(in_dates) + (i - 1)
    /\ \A i \in DOMAIN out_days :
           IF \E j \in DOMAIN in_dates : in_dates[j] = out_days[i]
           THEN out_changes[i] = in_changes[IndexOf(in_dates, out_days[i])]
           ELSE out_changes[i] = 0

\* C6: from an ascending, duplicate-free list of dates fill_no_transact_days
\* returns every calendar day from the first to the last date, one day apart,
\* with the input change on the days of the input and 0 on the others.
FillContiguous ==
    /\ pc = "correct" =>
           /\ Ascending(cheq_unique_days) /\ Ascending(save_unique_days)
           /\ FillCorrect(cheq_unique_days, cheq_daily_changes,
                          cheq_fill_days, cheq_fill_daily_changes)
           /\ FillCorrect(save_unique_days, save_daily_changes,
                          save_fill_days, save_fill_daily_changes)
    /\ pc = "bank_initial" =>
           /\ Ascending(bank_unique_days)
           /\ FillCorrect(bank_unique_days, bank_daily_changes,
                          bank_fill_days, bank_fill_daily_changes)

\* The filler has run on two chequing dates more than a day apart and on a
\* single saving date.
FillWitness ==
    /\ pc = "correct"
    /\ Len(cheq_unique_days) = 2
    /\ cheq_unique_days[2] > cheq_unique_days[1] + 1
    /\ cheq_daily_changes[1] # 0 /\ cheq_daily_changes[2] # 0
    /\ Len(save_unique_days) = 1

\* The <<year, month>> of a date.
YearMonth(d) == LET fields == CivilFromDays(d) IN <<fields[1], fields[2]>>

\* What get_monthly_change_balance owes its caller for months and changes.
MonthlyCorrect(days, changes, months, monthly_changes) ==
    LET month_of_day == [j \in DOMAIN days |-> YearMonth(days[j])]
        month_of_row == [i \in DOMAIN months |-> YearMonth(months[i])]
    IN  /\ Len(months) = Cardinality({ month_of_day[j] : j \in DOMAIN days })
        /\ Len(monthly_changes) = Len(months)
        /\ Ascending(months)
        /\ \A i \in DOMAIN months :
               /\ DayOf(months[i]) = 1
               /\ \E j \in DOMAIN days : month_of_day[j] = month_of_row[i]
               /\ monthly_changes[i] =
                      SumOver({ j \in DOMAIN days : month_of_day[j] = month_of_row[i] },
                              changes)

\* C7: get_monthly_change_balance returns one row per month of the daily
\* series, dated the 1st of the month, in chronological order, whose change
\* is the total of the daily changes of the days of that month.
MonthlyRows ==
    /\ pc = "aggregate" =>
           /\ MonthlyCorrect(cheq_fill_days, cheq_fill_daily_changes,
                             cheq_months, cheq_monthly_changes)
           /\ MonthlyCorrect(save_fill_days, save_fill_daily_changes,
                             save_months, save_monthly_changes)
    /\ pc = "done" =>
           MonthlyCorrect(bank_fill_days, bank_fill_daily_changes,
                          bank_months, bank_monthly_changes)

\* The aggregator has run on a chequing series over three months with changes
\* in the first and in the last.
MonthlyWitness ==
    /\ pc = "aggregate"
    /\ Len(cheq_months) = 3
    /\ cheq_monthly_changes[1] # 0 /\ cheq_monthly_changes[3] # 0
    /\ Len(cheq_fill_days) > 3

\* What get_monthly_change_balance owes its caller for the start balances.
StartBalanceCorrect(days, daily_balances, months, monthly_balances) ==
    /\ Len(monthly_balances) = Len(months)
    /\ \A i \in DOMAIN months :
           IF months[i] \in SetOf(days)
           THEN monthly_balances[i] = daily_balances[IndexOf(days, months[i])]
           ELSE monthly_balances[i] = First(daily_balances)
    /\ Len(days) = 1 => Len(months) = 1 /\ monthly_balances[1] = daily_balances[1]

\* C8: the start balance of a monthly row is the daily balance of the 1st of
\* the month when the daily series has that day, and the balance of the first
\* day of the series otherwise; a history of one day has one monthly row with
\* that day's balance.
MonthlyStartBalance ==
    /\ pc = "aggregate" =>
           /\ StartBalanceCorrect(cheq_fill_days, cheq_daily_balances,
                                  cheq_months, cheq_monthly_balances)
           /\ StartBalanceCorrect(save_fill_days, save_daily_balances,
                                  save_months, save_monthly_balances)
    /\ pc = "done" =>
           StartBalanceCorrect(bank_fill_days, bank_daily_balances,
                               bank_months, bank_monthly_balances)

\* The aggregator has run on a chequing series that begins mid-month, reaches
\* later months and ends on another balance, and on a saving series of one
\* day that is not the 1st of its month.
MonthlyStartBalanceWitness ==
    /\ pc = "aggregate"
    /\ Len(cheq_months) >= 2
    /\ cheq_months[1] \notin SetOf(cheq_fill_days)
    /\ cheq_months[2] \in SetOf(cheq_fill_days)
    /\ First(cheq_daily_balances) # Last(cheq_daily_balances)
    /\ Len(save_fill_days) = 1
    /\ DayOf(save_fill_days[1]) # 1

\* What convert_changes_to_balances owes its caller.
BalancesCorrect(initial_balance, changes, daily_balances) ==
    /\ Len(daily_balances) = Len(changes)
    /\ daily_balances[1] = initial_balance + changes[1]
    /\ \A i \in DOMAIN changes :
           i > 1 => daily_balances[i] - daily_balances[i - 1] = changes[i]

\* C9: convert_changes_to_balances returns as many balances as changes, the
\* first the initial balance plus the first change, each later one the
\* balance before it plus the change of its day.
AccumulatorRecurrence ==
    /\ pc = "monthly" =>
           /\ BalancesCorrect(initial_cheq_balance, cheq_fill_daily_changes,
                              cheq_daily_balances)
           /\ BalancesCorrect(initial_save_balance, save_fill_daily_changes,
                              save_daily_balances)
    /\ pc = "bank_monthly" =>
           BalancesCorrect(initial_bank_balance, bank_fill_daily_changes,
                           bank_daily_balances)

\* The accumulator has run on a chequing series of more than two days with a
\* change on the first and on the last day, from a start that is not zero.
AccumulatorWitness ==
    /\ pc = "monthly"
    /\ Len(cheq_fill_daily_changes) > 2
    /\ First(cheq_fill_daily_changes) # 0
    /\ Last(cheq_fill_daily_changes) # 0
    /\ initial_cheq_balance # 0
    /\ Last(cheq_daily_balances) # First(cheq_daily_balances)

\* The change an account contributes on day d: that of its filled series, 0
\* on a day outside it.
ChangeOn(days, changes, d) ==
    IF d \in SetOf(days) THEN changes[IndexOf(days, d)] ELSE 0

\* C10: on every date of the combined daily series the combined change is the
\* chequing change plus the saving change of that date, an account counting 0
\* on a date outside its own filled range.
CombinedChangeIsSum ==
    pc = "done" =>
        /\ Len(bank_fill_daily_changes) = Len(bank_fill_days)
        /\ \A i \in DOMAIN bank_fill_days :
               bank_fill_daily_changes[i] =
                   ChangeOn(cheq_fill_days, cheq_fill_daily_changes, bank_fill_days[i])
                   + ChangeOn(save_fill_days, save_fill_daily_changes, bank_fill_days[i])

\* A constructed history whose chequing range ends more than a day before the
\* saving range begins.
CombinedChangeWitness ==
    /\ pc = "done"
    /\ Last(cheq_fill_days) + 1 < First(save_fill_days)
    /\ Len(cheq_fill_days) > 1
    /\ Last(cheq_fill_daily_changes) # 0
    /\ First(save_fill_daily_changes) # 0

\* The total, in thousandths, of the amounts written in the rows of a csv.
RECURSIVE TotalMills(_)
TotalMills(csv_rows) ==
    IF csv_rows = <<>> THEN 0
    ELSE csv_rows[1].account_change.mills + TotalMills(Tail(csv_rows))

Abs(x) == IF x < 0 THEN 0 - x ELSE x

\* Whether every amount of the csv is written with at most two decimals.
CentPrecision(csv_rows) ==
    \A i \in DOMAIN csv_rows : csv_rows[i].account_change.mills % 10 = 0

\* The distance, in thousandths, between the total of the filled daily changes
\* and the total of the amounts of the csv.
FilledTotalError(fill_daily_changes, csv_rows) ==
    Abs(10 * SumOver(DOMAIN fill_daily_changes, fill_daily_changes) - TotalMills(csv_rows))

\* C11 as stated: for each account the total of the filled daily changes is
\* within 0.01 per distinct transaction date of the total of the original
\* amounts, and equal to it when the amounts have cent precision.
FilledTotalWithinCentPerDate ==
    pc = "done" =>
        /\ FilledTotalError(cheq_fill_daily_changes, chequing_csvs)
               <= 10 * Cardinality(SetOf(cheq_days))
        /\ FilledTotalError(save_fill_daily_changes, saving_csvs)
               <= 10 * Cardinality(SetOf(save_days))
        /\ CentPrecision(chequing_csvs) =>
               FilledTotalError(cheq_fill_daily_changes, chequing_csvs) = 0
        /\ CentPrecision(saving_csvs) =>
               FilledTotalError(save_fill_daily_changes, saving_csvs) = 0

\* C11 as amended: for each account the total of the filled daily changes is
\* within 0.005 per transaction record of the total of the original amounts,
\* is the total of the amounts as rounded on extraction, and is equal to the
\* total of the original amounts when these have cent precision.
FilledTotalWithinHalfCentPerRecord ==
    pc = "done" =>
        /\ FilledTotalError(cheq_fill_daily_changes, chequing_csvs) <= 5 * Len(chequing_csvs)
        /\ FilledTotalError(save_fill_daily_changes, saving_csvs) <= 5 * Len(saving_csvs)
        /\ SumOver(DOMAIN cheq_fill_daily_changes, cheq_fill_daily_changes)
               = SumOver(DOMAIN cheq_changes, cheq_changes)
        /\ SumOver(DOMAIN save_fill_daily_changes, save_fill_daily_changes)
               = SumOver(DOMAIN save_changes, save_changes)
        /\ CentPrecision(chequing_csvs) =>
               FilledTotalError(cheq_fill_daily_changes, chequing_csvs) = 0
        /\ CentPrecision(saving_csvs) =>
               FilledTotalError(save_fill_daily_changes, saving_csvs) = 0

\* A constructed history with three chequing records, two of them on one
\* date, amounts beyond cent precision, and days filled in.
FilledTotalWitness ==
    /\ pc = "done"
    /\ Len(chequing_csvs) = 3
    /\ Cardinality(SetOf(cheq_days)) = 2
    /\ Len(cheq_fill_days) > 2
    /\ ~CentPrecision(chequing_csvs)
    /\ FilledTotalError(cheq_fill_daily_changes, chequing_csvs) > 10

\* The total of a list.
Total(list) == SumOver(DOMAIN list, list)

\* C12: the monthly net changes of a filled daily series add up to the total
\* of its daily changes, for the chequing, the saving and the combined series.
MonthlyTotalIsDailyTotal ==
    /\ pc = "aggregate" =>
           /\ Total(cheq_monthly_changes) = Total(cheq_fill_daily_changes)
           /\ Total(save_monthly_changes) = Total(save_fill_daily_changes)
    /\ pc = "done" =>
           Total(bank_monthly_changes) = Total(bank_fill_daily_changes)

\* A constructed history whose combined series has changes in at least two
\* months, one of them on a day after the first day of its month.
MonthlyTotalWitness ==
    /\ pc = "done"
    /\ Len(bank_months) >= 2
    /\ bank_monthly_changes[1] # 0
    /\ bank_monthly_changes[Len(bank_months)] # 0
    /\ Len(bank_fill_days) > Len(bank_months)
    /\ Last(bank_fill_daily_changes) # 0
    /\ DayOf(Last(bank_fill_days)) # 1

\* Whether consecutive dates of the list are one day apart.
GapFree(days) == \A i \in DOMAIN days : i > 1 => days[i] = days[i - 1] + 1

\* Filling the filled series again gives it back, and so does filling a
\* series without gaps.
FillIdempotentOn(unique_days, daily_changes, fill_days, fill_daily_changes) ==
    /\ Len(fill_days) >= 1
    /\ fill_no_transact_days(fill_days, fill_daily_changes) = <<fill_days, fill_daily_changes>>
    /\ GapFree(unique_days) =>
           <<fill_days, fill_daily_changes>> = <<unique_days, daily_changes>>

\* C13: fill_no_transact_days returns a series without gaps, a single entry
\* included, as it is, and filling a filled series again changes nothing.
FillIdempotent ==
    /\ pc = "correct" =>
           /\ FillIdempotentOn(cheq_unique_days, cheq_daily_changes,
                               cheq_fill_days, cheq_fill_daily_changes)
           /\ FillIdempotentOn(save_unique_days, save_daily_changes,
                               save_fill_days, save_fill_daily_changes)
    /\ pc = "bank_initial" =>
           FillIdempotentOn(bank_unique_days, bank_daily_changes,
                            bank_fill_days, bank_fill_daily_changes)

\* The filler has run on chequing dates with a gap, so that the filled series
\* is longer than its input and has a zero inside, and on one saving date.
FillIdempotentWitness ==
    /\ pc = "correct"
    /\ Len(cheq_unique_days) = 3
    /\ ~GapFree(cheq_unique_days)
    /\ Len(cheq_fill_days) > 3
    /\ \E i \in DOMAIN cheq_fill_daily_changes : cheq_fill_daily_changes[i] = 0
    /\ Len(save_unique_days) = 1

\* Whether a row of the csv has a date string that is no month/day/year
\* calendar date, or an amount that is no number.
BadDate(csv_rows) ==
    \E i \in DOMAIN csv_rows :
        LET ds == csv_rows[i].date_string
        IN  ~(ds[1] \in 1..12 /\ ds[2] >= 1 /\ ds[2] <= DaysInMonth(ds[1], ds[3]))

BadAmount(csv_rows) == \E i \in DOMAIN csv_rows : ~csv_rows[i].account_change.numeric

Malformed(csv_rows) == BadDate(csv_rows) \/ BadAmount(csv_rows)

\* No list of the constructor beyond its inputs has been produced.
NothingProduced ==
    /\ extracted = << <<>>, <<>>, <<>>, <<>> >>
    /\ collapsed = << <<>>, <<>>, <<>>, <<>> >>
    /\ filled = << <<>>, <<>>, <<>>, <<>> >>
    /\ balances = << <<>>, <<>> >>
    /\ monthlies = << <<>>, <<>>, <<>>, <<>>, <<>>, <<>> >>
    /\ aggregate = << <<>>, <<>> >>
    /\ bank_collapsed = << <<>>, <<>> >>
    /\ bank_filled = << <<>>, <<>> >>
    /\ bank_daily_balances = <<>>
    /\ bank_monthlies = << <<>>, <<>>, <<>> >>
    /\ initial_cheq_balance = initial_chequing
    /\ initial_save_balance = initial_saving

\* C14: with a malformed date or amount in a row of either csv the
\* constructor never gets past the extraction: it ends there with the error,
\* and no daily or monthly series of any account exists.
IngestionErrorPropagates ==
    (Malformed(chequing_csvs) \/ Malformed(saving_csvs)) =>
        /\ pc \in {"extract", "ValueError"}
        /\ NothingProduced

\* The constructor has ended with the error on a saving csv whose second row
\* has an amount that is no number, after a chequing csv without fault.
IngestionErrorWitness ==
    /\ pc = "ValueError"
    /\ Len(chequing_csvs) = 2 /\ ~Malformed(chequing_csvs)
    /\ Len(saving_csvs) = 2
    /\ ~Malformed(<<saving_csvs[1]>>)
    /\ BadAmount(saving_csvs) /\ ~BadDate(saving_csvs)

\* The chequing csv of the example: +500.00 and -20.00 on 2021-01-01, -10.005
\* on 2021-01-03.
ExampleCsv ==
    << Row(<<1, 1, 2021>>, Amount(500000)),
       Row(<<1, 1, 2021>>, Amount(-20000)),
       Row(<<1, 3, 2021>>, Amount(-10005)) >>

ExampleJan1 == DaysFromCivil(2021, 1, 1)

\* C15: for the example csv and a supplied initial balance of 500.00 the
\* first-day collapsed change is 480.00, the accumulation starts from 20.00
\* and the filled series is Jan 1 (480.00, 500.00), Jan 2 (0.00, 500.00),
\* Jan 3 (-10.01, 489.99): the half cent goes away from zero.
ExampleHistory ==
    (pc = "done" /\ chequing_csvs = ExampleCsv /\ initial_chequing = 50000) =>
        /\ cheq_changes = <<50000, -2000, -1001>>
        /\ cheq_unique_days = <<ExampleJan1, ExampleJan1 + 2>>
        /\ cheq_daily_changes = <<48000, -1001>>
        /\ initial_cheq_balance = 2000
        /\ cheq_fill_days = <<ExampleJan1, ExampleJan1 + 1, ExampleJan1 + 2>>
        /\ cheq_fill_daily_changes = <<48000, 0, -1001>>
        /\ cheq_daily_balances = <<50000, 50000, 48999>>

\* The history of the example csv with 500.00 supplied has been constructed.
ExampleWitness ==
    /\ pc = "done"
    /\ chequing_csvs = ExampleCsv
    /\ initial_chequing = 50000
    /\ Len(cheq_daily_balances) = 3

\* The first of FinancialSummary.pdf, FinancialSummary (1).pdf, ... in the
\* target folder at which no file exists.
FirstFree ==
    LET free == {k \in 0..MaxSummaries : pdf_path \o SummaryNumbered(k) \notin files}
    IN  pdf_path \o SummaryNumbered(CHOOSE k \in free : \A j \in free : k <= j)

\* C16: the path plot_pdf hands to savefig names no existing file and is the
\* first of FinancialSummary.pdf, FinancialSummary (1).pdf, FinancialSummary
\* (2).pdf, ... of the target folder at which no file exists.
SavesAtFirstFree ==
    pc = "savefig" =>
        /\ initial_pdf_path \notin files
        /\ initial_pdf_path = FirstFree

\* Every monthly row after the first starts on a day of the daily series and
\* carries the balance of that day.
LaterRowsOnFirst(days, daily_balances, months, monthly_balances) ==
    \A i \in DOMAIN months :
        /\ months[i] \notin SetOf(days) => i = 1
        /\ i > 1 => /\ DayOf(months[i]) = 1
                    /\ monthly_balances[i] = daily_balances[IndexOf(days, months[i])]

\* C17: in the chequing, saving and combined monthly series only the first row
\* can fall back to the balance of the first day of the history: every later
\* row is dated a day of the gap-free daily series, the 1st of its month, and
\* its start balance is the daily balance of that day.
FallbackOnlyFirstRow ==
    /\ pc = "aggregate" =>
           /\ LaterRowsOnFirst(cheq_fill_days, cheq_daily_balances,
                               cheq_months, cheq_monthly_balances)
           /\ LaterRowsOnFirst(save_fill_days, save_daily_balances,
                               save_months, save_monthly_balances)
    /\ pc = "done" =>
           LaterRowsOnFirst(bank_fill_days, bank_daily_balances,
                            bank_months, bank_monthly_balances)

\* The combined series begins mid-month, so that its first monthly row falls
\* back, and has a later row whose 1st was filled in and carries a balance
\* other than the fallback's.
FallbackWitness ==
    /\ pc = "done"
    /\ Len(bank_months) >= 2
    /\ bank_months[1] \notin SetOf(bank_fill_days)
    /\ bank_months[Len(bank_months)] \notin SetOf(bank_unique_days)
    /\ bank_monthly_balances[Len(bank_months)] # bank_monthly_balances[1]

\* The balance an account had before its first transaction date: the supplied
\* balance less the total change of that date.
PreHistory(supplied, dates, changes, fill_days) ==
    supplied - TotalOn(dates, changes, First(fill_days))

\* What an account adds to the combined balances: on the combined dates before
\* its first date the balance pre, on those after its last date its last
\* daily balance; other is the balance of the other account on each date.
Contributes(days, daily_balances, pre, other) ==
    \A i \in DOMAIN bank_fill_days :
        /\ bank_fill_days[i] < First(days) =>
               bank_daily_balances[i] - other[i] = pre
        /\ bank_fill_days[i] > Last(days) =>
               bank_daily_balances[i] - other[i] = Last(daily_balances)

\* C18: the combined accumulation starts from the sum of the two supplied
\* balances each less its account's first-day change; on a combined date
\* before an account's first date the account adds that corrected balance, on
\* a combined date after its last date its final daily balance; and when both
\* accounts start on the same date the combined balance of that date is the
\* sum of the two supplied balances.
CombinedStart ==
    pc = "done" =>
        LET cheq_pre == PreHistory(initial_chequing, cheq_days, cheq_changes, cheq_fill_days)
            save_pre == PreHistory(initial_saving, save_days, save_changes, save_fill_days)
            cheq_on == [i \in DOMAIN bank_fill_days |->
                           BalanceOn(cheq_fill_days, cheq_daily_balances, cheq_pre,
                                     bank_fill_days[i])]
            save_on == [i \in DOMAIN bank_fill_days |->
                           BalanceOn(save_fill_days, save_daily_balances, save_pre,
                                     bank_fill_days[i])]
        IN  /\ initial_bank_balance = cheq_pre + save_pre
            /\ Contributes(cheq_fill_days, cheq_daily_balances, cheq_pre, save_on)
            /\ Contributes(save_fill_days, save_daily_balances, save_pre, cheq_on)
            /\ First(cheq_fill_days) = First(save_fill_days) =>
                   First(bank_daily_balances) = initial_chequing + initial_saving

\* Both accounts start on the same date with a change each, and the saving
\* series runs on after the chequing series has ended on another balance.
CombinedStartWitness ==
    /\ pc = "done"
    /\ First(cheq_fill_days) = First(save_fill_days)
    /\ First(cheq_fill_daily_changes) # 0 /\ First(save_fill_daily_changes) # 0
    /\ Last(cheq_fill_days) < Last(save_fill_days)
    /\ Last(cheq_daily_balances) # initial_chequing
    /\ initial_bank_balance # initial_chequing + initial_saving

====
